---- MODULE Spec2Model ----
(***************************************************************************)
(* Model of sim_humidificador.py: the explicit-Euler vapour mass balance   *)
(* of simular_relleno.  Python floats are modelled as exact rationals      *)
(* <<numerator, denominator>> in lowest terms with a positive denominator, *)
(* so the properties below are those of the real-valued algorithm; float   *)
(* rounding is outside the model.                                          *)
(***************************************************************************)
EXTENDS Integers, Sequences, FiniteSets, TLC

-----------------------------------------------------------------------------
(* Bounds of the explored inputs *)

MaxV == 2

MaxDotm == 2

MaxTiempo == 2

-----------------------------------------------------------------------------
(* Exact arithmetic standing for the float operators of the source *)

Abs(x) == IF x < 0 THEN -x ELSE x

RECURSIVE GCD(_, _)
GCD(x, y) == IF y = 0 THEN x ELSE GCD(y, x % y)

Frac(n, d) ==
    LET s == IF d < 0 THEN -1 ELSE 1
        g == GCD(Abs(n), Abs(d))
    IN  <<(s * n) \div g, (s * d) \div g>>

Zero == <<0, 1>>

Cien == <<100, 1>>

Sesenta == <<60, 1>>

Add(x, y) == Frac(x[1] * y[2] + y[1] * x[2], x[2] * y[2])

Sub(x, y) == Frac(x[1] * y[2] - y[1] * x[2], x[2] * y[2])

Mul(x, y) == Frac(x[1] * y[1], x[2] * y[2])

Div(x, y) == Frac(x[1] * y[2], x[2] * y[1])

Leq(x, y) == x[1] * y[2] <= y[1] * x[2]

Lt(x, y) == x[1] * y[2] < y[1] * x[2]

Max(x, y) == IF Lt(x, y) THEN y ELSE x

Min(x, y) == IF Lt(y, x) THEN y ELSE x

\* int(x): truncation toward zero
Trunc(x) == IF x[1] >= 0 THEN x[1] \div x[2] ELSE -((-x[1]) \div x[2])

\* Python's None; no rational has denominator 0
None == <<0, 0>>

-----------------------------------------------------------------------------
(* Saturation model *)

\* rho_saturacion(T_c), tabulated at the temperatures explored and rounded
\* to the nearest g/m^3 (Magnus formula: 4.85 at 0 C, 17.24 at 20 C)
rho_saturacion(T_c) == IF T_c = 0 THEN <<5, 1>> ELSE <<17, 1>>

rho_desde_HR(HR, T_c) == Mul(Div(HR, Cien), rho_saturacion(T_c))

-----------------------------------------------------------------------------
(* State of one call of simular_relleno *)

VARIABLES V, dotm, T, HR0, HR_out, ACH, k_cond, modo_cond, dt, HR_objetivo,
          tiempo_max,
          rho_sat, rho_v, rho_out, tiempos, rhos, masa_condensada,
          masa_inyectada, rho_objetivo, pasos_max,
          i, t, masa_in, masa_actual, perdida_vent, perdida_cond,
          nueva_masa, nuevo_rho,
          t_obj, pc

args == <<V, dotm, T, HR0, HR_out, ACH, k_cond, modo_cond, dt, HR_objetivo,
          tiempo_max>>

locals == <<t, masa_in, masa_actual, perdida_vent, perdida_cond,
            nueva_masa, nuevo_rho>>

vars == <<args, rho_sat, rho_v, rho_out, tiempos, rhos, masa_condensada,
          masa_inyectada, rho_objetivo, pasos_max, i, locals, t_obj, pc>>

VSet == {Frac(v, 1) : v \in 0..MaxV}

DotmSet == {Frac(m, 1) : m \in 0..MaxDotm}

TSet == {0, 20}

HR0Set == {Frac(h, 1) : h \in {0, 50, 100, 150}}

HROutSet == {Frac(h, 1) : h \in {0, 50, 100}}

ACHSet == {Frac(c, 1) : c \in {0, 40, 240}}

KCondSet == {Frac(k, 1) : k \in {0, 1}}

ModoSet == {"fijo", "proporcional", "otro"}

DtSet == {Frac(0, 1), Frac(1, 2), Frac(3, 4)}

HRObjetivoSet == {Frac(h, 1) : h \in {40, 100}}

TiempoMaxSet == {Frac(m, 1) : m \in 1..MaxTiempo}

\* The call: arguments bound, no statement of the body executed yet
Init ==
    /\ V \in VSet
    /\ dotm \in DotmSet
    /\ T \in TSet
    /\ HR0 \in HR0Set
    /\ HR_out \in HROutSet
    /\ ACH \in ACHSet
    /\ k_cond \in KCondSet
    /\ modo_cond \in ModoSet
    /\ dt \in DtSet
    /\ HR_objetivo \in HRObjetivoSet
    /\ tiempo_max \in TiempoMaxSet
    /\ rho_sat = Zero /\ rho_v = Zero /\ rho_out = Zero
    /\ tiempos = <<>> /\ rhos = <<>>
    /\ masa_condensada = Zero /\ masa_inyectada = Zero
    /\ rho_objetivo = Zero /\ pasos_max = 0
    /\ i = 0
    /\ t = Zero /\ masa_in = Zero /\ masa_actual = Zero
    /\ perdida_vent = Zero /\ perdida_cond = Zero
    /\ nueva_masa = Zero /\ nuevo_rho = Zero
    /\ t_obj = None
    /\ pc = "inicio"

-----------------------------------------------------------------------------
(* Statements of the body, as operators over the current state *)

\* line 107
PasosMaxMas == Trunc(Div(tiempo_max, dt)) + 1
PasosMax == Trunc(Div(tiempo_max, dt))

\* line 110
Tiempo(k) == Mul(Frac(k + 1, 1), dt)

\* line 113
MasaIn == Mul(dotm, dt)

\* line 116
MasaActual == Mul(rho_v, V)

\* lines 119-122
PerdidaVentInv == Mul(Mul(Div(Mul(ACH, V), Sesenta), Sub(rho_out, rho_v)), dt)
PerdidaVent == Mul(Mul(Div(Mul(ACH, V), Sesenta), Sub(rho_v, rho_out)), dt)

\* lines 125-129
PerdidaCondSinMax ==
    IF modo_cond = "fijo"
    THEN Min(Mul(k_cond, dt), Max(Zero, MasaActual))
    ELSE Mul(Mul(Mul(Sub(rho_v, rho_sat), V), k_cond), dt)
PerdidaCondFijoSiempre == Min(Mul(k_cond, dt), Max(Zero, MasaActual))
PerdidaCond ==
    IF modo_cond = "fijo"
    THEN Min(Mul(k_cond, dt), Max(Zero, MasaActual))
    ELSE Mul(Mul(Mul(Max(Zero, Sub(rho_v, rho_sat)), V), k_cond), dt)

\* line 132
NuevaMasaSigno == Sub(Add(Add(MasaActual, MasaIn), PerdidaVent), PerdidaCond)
NuevaMasa == Sub(Sub(Add(MasaActual, MasaIn), PerdidaVent), PerdidaCond)

\* line 133 (V # 0)
NuevoRho == Max(Zero, Div(NuevaMasa, V))

\* lines 136-139: the recorded density
TopeSinLimite(x) == x
Tope(x) == IF Lt(rho_sat, x) THEN rho_sat ELSE x

\* lines 136-138: the mass reclassified as condensed
ExcesoTopeSinV(x) == IF Lt(rho_sat, x) THEN Sub(x, rho_sat) ELSE Zero
ExcesoTope(x) == IF Lt(rho_sat, x) THEN Mul(Sub(x, rho_sat), V) ELSE Zero

\* line 149
LlegoEstricto(x) == Lt(rho_objetivo, x)
Llego(x) == Leq(rho_objetivo, x)

-----------------------------------------------------------------------------
(* Actions *)

\* lines 96-106, common to both outcomes of line 107
Preparar ==
    /\ rho_sat' = rho_saturacion(T)
    /\ rho_v' = rho_desde_HR(HR0, T)
    /\ rho_out' = rho_desde_HR(HR_out, T)
    /\ tiempos' = <<Zero>>
    /\ rhos' = <<rho_desde_HR(HR0, T)>>
    /\ masa_condensada' = Zero
    /\ masa_inyectada' = Zero
    /\ rho_objetivo' = Mul(Div(HR_objetivo, Cien), rho_saturacion(T))

\* lines 96-107 with dt # 0
Inicio ==
    /\ pc = "inicio"
    /\ dt # Zero
    /\ Preparar
    /\ pasos_max' = PasosMax
    /\ pc' = "bucle"
    /\ UNCHANGED <<args, i, locals, t_obj>>

\* lines 96-107 with dt = 0: tiempo_max / dt raises ZeroDivisionError
InicioFalla ==
    /\ pc = "inicio"
    /\ dt = Zero
    /\ Preparar
    /\ pc' = "error107"
    /\ UNCHANGED <<args, pasos_max, i, locals, t_obj>>

\* lines 109-150: one iteration of the loop, V # 0
Paso ==
    /\ pc = "bucle"
    /\ i < pasos_max
    /\ V # Zero
    /\ t' = Tiempo(i)
    /\ masa_in' = MasaIn
    /\ masa_actual' = MasaActual
    /\ perdida_vent' = PerdidaVent
    /\ perdida_cond' = PerdidaCond
    /\ nueva_masa' = NuevaMasa
    /\ nuevo_rho' = NuevoRho
    /\ masa_condensada' = Add(Add(masa_condensada, ExcesoTope(NuevoRho)),
                              PerdidaCond)
    /\ masa_inyectada' = Add(masa_inyectada, MasaIn)
    /\ rho_v' = Tope(NuevoRho)
    /\ tiempos' = Append(tiempos, Tiempo(i))
    /\ rhos' = Append(rhos, Tope(NuevoRho))
    /\ i' = i + 1
    /\ IF Llego(Tope(NuevoRho))
       THEN pc' = "fin" /\ t_obj' = Tiempo(i)
       ELSE pc' = "bucle" /\ t_obj' = t_obj
    /\ UNCHANGED <<args, rho_sat, rho_out, rho_objetivo, pasos_max>>

\* lines 109-133 with V = 0: nueva_masa / V raises ZeroDivisionError
PasoFalla ==
    /\ pc = "bucle"
    /\ i < pasos_max
    /\ V = Zero
    /\ t' = Tiempo(i)
    /\ masa_in' = MasaIn
    /\ masa_actual' = MasaActual
    /\ perdida_vent' = PerdidaVent
    /\ perdida_cond' = PerdidaCond
    /\ nueva_masa' = NuevaMasa
    /\ pc' = "error133"
    /\ UNCHANGED <<args, rho_sat, rho_v, rho_out, tiempos, rhos,
                   masa_condensada, masa_inyectada, rho_objetivo, pasos_max,
                   i, nuevo_rho, t_obj>>

\* line 152: the loop is exhausted
Agotado ==
    /\ pc = "bucle"
    /\ i >= pasos_max
    /\ pc' = "fin"
    /\ t_obj' = None
    /\ UNCHANGED <<args, rho_sat, rho_v, rho_out, tiempos, rhos,
                   masa_condensada, masa_inyectada, rho_objetivo, pasos_max,
                   i, locals>>

Next == Inicio \/ InicioFalla \/ Paso \/ PasoFalla \/ Agotado

Spec == Init /\ [][Next]_vars

-----------------------------------------------------------------------------
(* Vocabulary of the properties *)

\* the validity constraints of the configuration
ValidConfig ==
    /\ Lt(Zero, V)
    /\ Lt(Zero, dt)
    /\ Leq(Zero, HR0) /\ Leq(HR0, Cien)
    /\ Leq(Zero, HR_out) /\ Leq(HR_out, Cien)
    /\ Leq(Zero, dotm)
    /\ Leq(Zero, ACH)
    /\ Leq(Zero, k_cond)
    /\ modo_cond \in {"fijo", "proporcional"}

Started == pc \in {"bucle", "fin"}

-----------------------------------------------------------------------------
(* C1: for every valid configuration, every recorded sample, the initial   *)
(* one included, has a density d with 0 <= d <= rho_sat.                   *)
C1_DensityInRange ==
    (ValidConfig /\ Started) =>
        \A k \in 1..Len(rhos) : Leq(Zero, rhos[k]) /\ Leq(rhos[k], rho_sat)

\* a valid run whose last step was cut by the saturation clamp, and one
\* earlier step was not
C1_Witness ==
    /\ ValidConfig /\ Started
    /\ Len(rhos) >= 3
    /\ Lt(rho_sat, nuevo_rho)
    /\ Lt(rhos[2], rho_sat)

(* C2: if the target density is <= the initial density, the run reports a  *)
(* time to target equal to 0.                                              *)
C2_TargetMetAtStartGivesZero ==
    (pc = "fin" /\ Leq(rho_objetivo, rhos[1])) => t_obj = Zero

(* C3: an invalid configuration is rejected with an error before any step: *)
(* the run never returns, no step is executed, no accumulator is updated   *)
(* and no division fault happens inside the loop.                          *)
C3_InvalidRejectedBeforeStepping ==
    ~ValidConfig =>
        /\ pc # "fin"
        /\ pc # "error133"
        /\ i = 0
        /\ Len(rhos) <= 1
        /\ masa_inyectada = Zero
        /\ masa_condensada = Zero

(* C4: the run returns a time to target iff some sample produced by a step *)
(* has density >= target; then it is the time of the last sample, that     *)
(* sample is >= target and no earlier step sample is; when it returns None *)
(* every step sample is below target and the whole series is returned.     *)
C4_TimeToTarget ==
    pc = "fin" =>
        LET n == Len(rhos) IN
        /\ (t_obj # None) <=> (\E k \in 2..n : Leq(rho_objetivo, rhos[k]))
        /\ t_obj # None =>
              /\ n >= 2
              /\ t_obj = tiempos[n]
              /\ Leq(rho_objetivo, rhos[n])
              /\ \A k \in 2..(n - 1) : Lt(rhos[k], rho_objetivo)
        /\ t_obj = None =>
              /\ \A k \in 2..n : Lt(rhos[k], rho_objetivo)
              /\ n = pasos_max + 1
              /\ Len(tiempos) = n

\* a run that returned at a step sample exactly equal to the target, after at
\* least one step sample below it
C4_Witness ==
    /\ pc = "fin"
    /\ t_obj # None
    /\ Len(rhos) >= 3
    /\ rhos[Len(rhos)] = rho_objetivo
    /\ Lt(rhos[2], rho_objetivo)

(* C5: for every valid configuration and in both condensation modes, each  *)
(* step adds a quantity >= 0 to masa_inyectada and a quantity >= 0 to      *)
(* masa_condensada, so neither total ever decreases.                       *)
C5_TotalsNonDecreasing ==
    [][ValidConfig =>
          /\ Leq(masa_inyectada, masa_inyectada')
          /\ Leq(masa_condensada, masa_condensada')
          /\ (i' = i + 1 => Leq(Zero, masa_in') /\ Leq(Zero, perdida_cond'))
      ]_vars

\* a valid proportional-mode run, started at saturation, in which both totals
\* have grown over at least two steps
C5_Witness ==
    /\ ValidConfig /\ Started
    /\ modo_cond = "proporcional"
    /\ Lt(Zero, k_cond)
    /\ rhos[1] = rho_sat
    /\ i >= 2
    /\ Lt(Zero, masa_inyectada)
    /\ Lt(Zero, masa_condensada)

(* C6 as stated: with injection rate 0 and a positive condensation         *)
(* coefficient, no recorded sample has a density above the initial one, so *)
(* a target strictly above the initial density gives time to target None.  *)
C6_NoInjectionNeverRises ==
    (ValidConfig /\ Started /\ dotm = Zero /\ Lt(Zero, k_cond)) =>
        /\ \A k \in 1..Len(rhos) : Leq(rhos[k], rhos[1])
        /\ (pc = "fin" /\ Lt(rhos[1], rho_objetivo)) => t_obj = None

(* C6 amended: with injection rate 0, a positive condensation coefficient, *)
(* an exterior humidity <= the initial humidity and ACH * dt <= 60, no     *)
(* recorded sample has a density above the initial one, so a target        *)
(* strictly above the initial density gives time to target None.           *)
C6_NoInjectionNoInflowNeverRises ==
    (/\ ValidConfig /\ Started /\ dotm = Zero /\ Lt(Zero, k_cond)
     /\ Leq(HR_out, HR0) /\ Leq(Mul(ACH, dt), Sesenta)) =>
        /\ \A k \in 1..Len(rhos) : Leq(rhos[k], rhos[1])
        /\ (pc = "fin" /\ Lt(rhos[1], rho_objetivo)) => t_obj = None

\* such a run, ventilated toward a drier exterior, that ended below a target
\* above its initial density
C6_Witness ==
    /\ ValidConfig /\ pc = "fin" /\ dotm = Zero /\ Lt(Zero, k_cond)
    /\ Leq(HR_out, HR0) /\ Leq(Mul(ACH, dt), Sesenta)
    /\ Lt(Zero, ACH)
    /\ Lt(rhos[1], rho_objetivo)
    /\ Len(rhos) >= 3
    /\ Lt(rhos[Len(rhos)], rhos[1])
    /\ t_obj = None

(* C7: in proportional mode with initial relative humidity <= 100, the     *)
(* step condensation loss is 0 at every step, so each step adds to the     *)
(* condensed total exactly its saturation-clamp excess, and the total is 0 *)
(* as long as no step sample sits at saturation.                           *)
C7_ProportionalOnlyClampCondenses ==
    /\ [][(modo_cond = "proporcional" /\ Leq(HR0, Cien) /\ i' = i + 1) =>
            /\ perdida_cond' = Zero
            /\ masa_condensada' =
                 Add(masa_condensada,
                     IF Lt(rho_sat, nuevo_rho')
                     THEN Mul(Sub(nuevo_rho', rho_sat), V) ELSE Zero)
         ]_vars
    /\ [](modo_cond = "proporcional" /\ Leq(HR0, Cien) /\ Started
            /\ (\A k \in 2..Len(rhos) : Lt(rhos[k], rho_sat))
          => masa_condensada = Zero)

\* a proportional-mode run started at saturation with a positive coefficient
\* whose condensed total comes from a clamped step
C7_Witness ==
    /\ modo_cond = "proporcional" /\ Lt(Zero, k_cond)
    /\ HR0 = Cien
    /\ Started /\ i >= 2
    /\ Lt(rho_sat, nuevo_rho)
    /\ Lt(Zero, masa_condensada)

(* C8 as stated: at every step of a valid configuration, the step-5 new    *)
(* density times the volume, minus the mass at the start of the step,      *)
(* equals injected mass - ventilation loss - condensation loss.            *)
C8_DensityTimesVolumeBalance ==
    (ValidConfig /\ Started /\ i >= 1) =>
        Sub(Mul(nuevo_rho, V), masa_actual) =
            Sub(Sub(masa_in, perdida_vent), perdida_cond)

(* C8 amended: at every step of a valid configuration, the new mass of the *)
(* balance (before the non-negativity floor and the saturation clamp)      *)
(* minus the mass at the start of the step equals injected mass -          *)
(* ventilation loss - condensation loss; the step-5 density times the      *)
(* volume equals that new mass when it is >= 0 and is 0 otherwise.         *)
C8_MassBalanceBeforeFloor ==
    (ValidConfig /\ Started /\ i >= 1) =>
        /\ Sub(nueva_masa, masa_actual) =
              Sub(Sub(masa_in, perdida_vent), perdida_cond)
        /\ masa_actual = Mul(rhos[i], V)
        /\ Leq(Zero, nueva_masa) => Mul(nuevo_rho, V) = nueva_masa
        /\ Lt(nueva_masa, Zero) => nuevo_rho = Zero

\* a valid run with a step that gained by ventilation and lost by
\* condensation, and a later step where the floor fired
C8_Witness ==
    /\ ValidConfig /\ Started /\ i >= 2
    /\ Lt(nueva_masa, Zero)
    /\ Lt(Zero, perdida_cond)
    /\ Lt(Zero, rhos[2])

\* floor(tiempo_max / dt) for dt > 0: the n with n*dt <= tiempo_max < (n+1)*dt
FloorSteps ==
    CHOOSE n \in 0..(2 * MaxTiempo) :
        /\ Leq(Mul(Frac(n, 1), dt), tiempo_max)
        /\ Lt(tiempo_max, Mul(Frac(n + 1, 1), dt))

\* the series has one sample per executed step plus the initial one, at
\* times 0, dt, 2*dt, ..., none beyond tiempo_max, and at most N steps ran
SeriesShape ==
    (ValidConfig /\ Started) =>
        /\ i <= FloorSteps
        /\ Len(tiempos) = i + 1
        /\ Len(rhos) = i + 1
        /\ \A k \in 1..Len(tiempos) :
              /\ tiempos[k] = Mul(Frac(k - 1, 1), dt)
              /\ k > 1 => Lt(tiempos[k - 1], tiempos[k])
              /\ Leq(tiempos[k], tiempo_max)
        /\ (pc = "fin" /\ t_obj = None) => Len(rhos) = FloorSteps + 1

\* recorded samples are kept as they are by every later step
AppendOnly ==
    /\ Len(tiempos') >= Len(tiempos)
    /\ Len(rhos') >= Len(rhos)
    /\ \A k \in 1..Len(tiempos) : tiempos'[k] = tiempos[k]
    /\ \A k \in 1..Len(rhos) : rhos'[k] = rhos[k]

\* while the loop runs every transition executes one more step, and a valid
\* run leaves the loop only by returning
Progress ==
    /\ (pc = "bucle" /\ pc' = "bucle") => i' = i + 1
    /\ (ValidConfig /\ pc = "bucle") => pc' \in {"bucle", "fin"}

C10_ClampReclassifiesExcess ==
    [][i' = i + 1 =>
          /\ rhos'[Len(rhos')] = rho_v'
          /\ IF Lt(rho_sat, nuevo_rho')
             THEN /\ rho_v' = rho_sat
                  /\ masa_condensada' =
                       Add(masa_condensada,
                           Add(Mul(Sub(nuevo_rho', rho_sat), V),
                               perdida_cond'))
                  /\ Add(Mul(rho_v', V), masa_condensada') =
                       Add(Mul(nuevo_rho', V),
                           Add(masa_condensada, perdida_cond'))
             ELSE /\ rho_v' = nuevo_rho'
                  /\ masa_condensada' = Add(masa_condensada, perdida_cond')
      ]_vars

\* a fixed-mode run with a volume other than 1 whose last step was clamped
\* while also losing mass by condensation, after an unclamped step
C10_Witness ==
    /\ Started /\ i >= 2
    /\ V # <<1, 1>>
    /\ Lt(rho_sat, nuevo_rho)
    /\ Lt(Zero, perdida_cond)
    /\ Lt(rhos[2], rho_sat)
    /\ rho_v = rho_sat

====
